---- MODULE Spec2Model ----
(***************************************************************************)
(* cargo-panic-audit: the syntax-tree scanner (scanner.rs), the classifier *)
(* and false-positive filter (rules.rs) and the directory walk (audit.rs). *)
(* Texts are TLA+ strings; every substring test of the code is a real      *)
(* substring search on the characters of the text.                         *)
(***************************************************************************)
EXTENDS Integers, Sequences, FiniteSets, TLC

-----------------------------------------------------------------------------
(* Text primitives of the Rust standard library that the code relies on.   *)

\* str::contains: p occurs in s as a contiguous substring.
Contains(s, p) ==
    \E i \in 1..(Len(s) - Len(p) + 1) : SubSeq(s, i, i + Len(p) - 1) = p

UpperChars == "ABCDEFGHIJKLMNOPQRSTUVWXYZ"
LowerChars == "abcdefghijklmnopqrstuvwxyz"

\* char::to_lowercase on one character (ASCII letters; other characters of
\* the modelled texts have no lower-case form).
lower_char(c) ==
    IF \E k \in 1..Len(UpperChars) : SubSeq(UpperChars, k, k) = c
    THEN LET k == CHOOSE j \in 1..Len(UpperChars) : SubSeq(UpperChars, j, j) = c
         IN  SubSeq(LowerChars, k, k)
    ELSE c

RECURSIVE to_lowercase(_)
\* str::to_lowercase: every character lower-cased (the text is halved at
\* each step, which keeps the evaluation shallow).
to_lowercase(s) ==
    IF Len(s) <= 1 THEN lower_char(s)
    ELSE LET h == Len(s) \div 2 IN
         to_lowercase(SubSeq(s, 1, h)) \o to_lowercase(SubSeq(s, h + 1, Len(s)))

\* char::is_whitespace on the characters that occur in the modelled texts.
is_whitespace(c) == c \in {" ", "\t", "\n", "\r"}

RECURSIVE strip_whitespace(_)
\* .chars().filter(|c| !c.is_whitespace()).collect()
strip_whitespace(s) ==
    IF Len(s) = 0 THEN ""
    ELSE IF Len(s) = 1 THEN (IF is_whitespace(s) THEN "" ELSE s)
    ELSE LET h == Len(s) \div 2 IN
         strip_whitespace(SubSeq(s, 1, h)) \o strip_whitespace(SubSeq(s, h + 1, Len(s)))

\* .chars().take(n).collect()
take(s, n) == IF Len(s) <= n THEN s ELSE SubSeq(s, 1, n)

DigitChars == "0123456789"

RECURSIVE to_string(_)
\* usize::to_string: the decimal text of n.
to_string(n) ==
    IF n < 10 THEN SubSeq(DigitChars, n + 1, n + 1)
    ELSE to_string(n \div 10) \o SubSeq(DigitChars, (n % 10) + 1, (n % 10) + 1)

-----------------------------------------------------------------------------
(* types.rs                                                                *)

\* enum Severity, in declaration order (the derived Ord is this order).
Severity == <<"Critical", "High", "Medium", "Low">>

PanicClass ==
    {"AssumptionPanic", "ImplicitPanic", "PanicAmplification", "CloudflareClass",
     "AssertionFailure", "AllocationPanic", "FFIBoundary", "ProcessKilling"}

\* Vulnerability::new
Vulnerability(file, line, severity, panic_class, pattern, code) ==
    [file |-> file, line |-> line, severity |-> severity,
     panic_class |-> panic_class, pattern |-> pattern, code |-> code]

-----------------------------------------------------------------------------
(* rules.rs                                                                *)

ConfigKeywords ==
    {".toml", ".yaml", ".json", ".ini", ".conf", "config", "settings", "feature"}

\* is_cloudflare_class: called with the lower-cased text.
is_cloudflare_class(code) ==
    LET has_file_op == \/ Contains(code, "file::open")
                       \/ Contains(code, "read_to_string")
                       \/ Contains(code, "fs::read")
        has_config == \E kw \in ConfigKeywords : Contains(code, kw)
    IN  has_file_op /\ has_config

\* The conditions of the if-chain of classify_panic, on the lower-cased text.
is_file_io(lower) ==
    /\ \/ Contains(lower, "file::open")
       \/ Contains(lower, "file::create")
       \/ Contains(lower, "fs::read")
       \/ Contains(lower, "fs::write")
       \/ Contains(lower, "read_to_string")
    /\ (Contains(lower, "unwrap") \/ Contains(lower, "expect"))

is_network(lower) ==
    /\ \/ Contains(lower, "tcpstream::connect")
       \/ Contains(lower, "tcplistener::bind")
       \/ Contains(lower, "udpsocket::bind")
    /\ (Contains(lower, "unwrap") \/ Contains(lower, "expect"))

is_http(lower) ==
    /\ (Contains(lower, "reqwest") \/ Contains(lower, "hyper"))
    /\ Contains(lower, ".send(")

is_allocation(lower) == Contains(lower, "with_capacity") \/ Contains(lower, "reserve")

is_parsing(lower) ==
    \/ Contains(lower, "str::parse")
    \/ Contains(lower, ".parse::<")
    \/ Contains(lower, "from_str(")
    \/ Contains(lower, "serde_json::from")
    \/ Contains(lower, "toml::from")
    \/ Contains(lower, "yaml::from")

is_database(lower) ==
    /\ \/ Contains(lower, "query(")
       \/ Contains(lower, "execute(")
       \/ Contains(lower, "fetch")
    /\ \/ Contains(lower, "diesel")
       \/ Contains(lower, "sqlx")
       \/ Contains(lower, "postgres")

is_env_var(lower) == Contains(lower, "env::var")

\* Mutant: the parsing rule is tested first.
classify_panic_parsing_first(code) ==
    LET lower == to_lowercase(code) IN
    IF is_parsing(lower)
    THEN <<"High", "AssumptionPanic", "Parsing Operation">>
    ELSE IF is_cloudflare_class(lower)
    THEN <<"Critical", "CloudflareClass",
           "Config/Feature File Loading (Cloudflare Pattern)">>
    ELSE IF is_file_io(lower)
    THEN <<"Critical", "AssumptionPanic", "File I/O Operation">>
    ELSE IF is_network(lower)
    THEN <<"Critical", "AssumptionPanic", "Network Socket Operation">>
    ELSE IF is_http(lower)
    THEN <<"Critical", "AssumptionPanic", "HTTP Request">>
    ELSE IF is_allocation(lower)
    THEN <<"High", "AllocationPanic", "Allocation with Potential Untrusted Size">>
    ELSE IF is_database(lower)
    THEN <<"High", "AssumptionPanic", "Database Operation">>
    ELSE IF is_env_var(lower)
    THEN <<"Medium", "AssumptionPanic", "Environment Variable">>
    ELSE <<"Low", "AssumptionPanic", "General Unwrap">>

\* Mutant: the environment-variable rule is tested first.
classify_panic_env_first(code) ==
    LET lower == to_lowercase(code) IN
    IF is_env_var(lower)
    THEN <<"Medium", "AssumptionPanic", "Environment Variable">>
    ELSE IF is_cloudflare_class(lower)
    THEN <<"Critical", "CloudflareClass",
           "Config/Feature File Loading (Cloudflare Pattern)">>
    ELSE IF is_file_io(lower)
    THEN <<"Critical", "AssumptionPanic", "File I/O Operation">>
    ELSE IF is_network(lower)
    THEN <<"Critical", "AssumptionPanic", "Network Socket Operation">>
    ELSE IF is_http(lower)
    THEN <<"Critical", "AssumptionPanic", "HTTP Request">>
    ELSE IF is_allocation(lower)
    THEN <<"High", "AllocationPanic", "Allocation with Potential Untrusted Size">>
    ELSE IF is_parsing(lower)
    THEN <<"High", "AssumptionPanic", "Parsing Operation">>
    ELSE IF is_database(lower)
    THEN <<"High", "AssumptionPanic", "Database Operation">>
    ELSE <<"Low", "AssumptionPanic", "General Unwrap">>

\* classify_panic: <<severity, panic_class, pattern>>.
classify_panic(code) ==
    LET lower == to_lowercase(code) IN
    IF is_cloudflare_class(lower)
    THEN <<"Critical", "CloudflareClass",
           "Config/Feature File Loading (Cloudflare Pattern)">>
    ELSE IF is_file_io(lower)
    THEN <<"Critical", "AssumptionPanic", "File I/O Operation">>
    ELSE IF is_network(lower)
    THEN <<"Critical", "AssumptionPanic", "Network Socket Operation">>
    ELSE IF is_http(lower)
    THEN <<"Critical", "AssumptionPanic", "HTTP Request">>
    ELSE IF is_allocation(lower)
    THEN <<"High", "AllocationPanic", "Allocation with Potential Untrusted Size">>
    ELSE IF is_parsing(lower)
    THEN <<"High", "AssumptionPanic", "Parsing Operation">>
    ELSE IF is_database(lower)
    THEN <<"High", "AssumptionPanic", "Database Operation">>
    ELSE IF is_env_var(lower)
    THEN <<"Medium", "AssumptionPanic", "Environment Variable">>
    ELSE <<"Low", "AssumptionPanic", "General Unwrap">>

\* Mutant: the inner-field rule without its file/read/load exclusion.
is_false_positive_any_inner(code) ==
    LET lower == to_lowercase(code) IN
    \/ Contains(lower, "arc::try_unwrap")
    \/ Contains(lower, "rc::try_unwrap")
    \/ Contains(lower, "self.inner")
    \/ Contains(lower, ".inner()")

\* is_false_positive
is_false_positive(code) ==
    LET lower == to_lowercase(code) IN
    IF Contains(lower, "arc::try_unwrap") \/ Contains(lower, "rc::try_unwrap")
    THEN TRUE
    ELSE IF /\ (Contains(lower, "self.inner") \/ Contains(lower, ".inner()"))
            /\ ~Contains(lower, "file")
            /\ ~Contains(lower, "read")
            /\ ~Contains(lower, "load")
    THEN TRUE
    ELSE FALSE

-----------------------------------------------------------------------------
(* Syntax trees (syn) and their rendering (quote).  A node is a record      *)
(* tagged by kind; the children of a node are the nodes the default         *)
(* traversal syn::visit::visit_* descends into, in its order.               *)

Path(segs) == [kind |-> "path", segs |-> segs]
Lit(text) == [kind |-> "lit", text |-> text]
Field(base, member) == [kind |-> "field", base |-> base, member |-> member]
Call(func, args) == [kind |-> "call", func |-> func, args |-> args]
MethodCall(receiver, method, turbofish, args) ==
    [kind |-> "method_call", receiver |-> receiver, method |-> method,
     turbofish |-> turbofish, args |-> args]
Index(expr, index) == [kind |-> "index", expr |-> expr, index |-> index]
\* syn::Macro: the path before `!` and the delimited tokens, kept as tokens
\* (syn does not parse them), here as their token-stream text.
Macro(segs, tokens) == [kind |-> "macro", segs |-> segs, tokens |-> tokens]
\* syn::ItemFn: attrs is a sequence of attribute paths (each a sequence of
\* segments); abi is sig.abi, an Option<Abi> whose name is an Option too.
ItemFn(attrs, abi, name, body) ==
    [kind |-> "item_fn", attrs |-> attrs, abi |-> abi, name |-> name, body |-> body]

NoAbi == [is_some |-> FALSE, name_is_some |-> FALSE]
ExternAbi == [is_some |-> TRUE, name_is_some |-> FALSE]
ExternCAbi == [is_some |-> TRUE, name_is_some |-> TRUE]

RECURSIVE Join(_, _)
\* The strings of seq, separated by sep.
Join(seq, sep) ==
    IF Len(seq) = 0 THEN ""
    ELSE IF Len(seq) = 1 THEN seq[1]
    ELSE LET h == Len(seq) \div 2 IN
         Join(SubSeq(seq, 1, h), sep) \o sep \o Join(SubSeq(seq, h + 1, Len(seq)), sep)

RECURSIVE Render(_)
\* quote!(#node).to_string(): the node's tokens, printed by proc_macro2's
\* Display: a space between any two tokens (none after a joint punctuation
\* such as the first `:` of `::`), a group as its delimiters around its
\* tokens.  `m.lock().unwrap()` prints as `m . lock () . unwrap ()`.
Render(node) ==
    CASE node.kind = "path" -> Join(node.segs, " :: ")
      [] node.kind = "lit" -> node.text
      [] node.kind = "field" -> Render(node.base) \o " . " \o node.member
      [] node.kind = "call" ->
            Render(node.func) \o " ("
            \o Join([i \in 1..Len(node.args) |-> Render(node.args[i])], " , ") \o ")"
      [] node.kind = "method_call" ->
            Render(node.receiver) \o " . " \o node.method
            \o (IF node.turbofish = "" THEN "" ELSE " :: < " \o node.turbofish \o " >")
            \o " ("
            \o Join([i \in 1..Len(node.args) |-> Render(node.args[i])], " , ") \o ")"
      [] node.kind = "index" ->
            Render(node.expr) \o " [" \o Render(node.index) \o "]"
      [] node.kind = "macro" ->
            Join(node.segs, " :: ") \o " ! (" \o node.tokens \o ")"

\* Mutant: the receiver of a method call is not descended into.
Children_skips_receiver(node) ==
    CASE node.kind = "path" -> <<>>
      [] node.kind = "lit" -> <<>>
      [] node.kind = "field" -> <<node.base>>
      [] node.kind = "call" -> <<node.func>> \o node.args
      [] node.kind = "method_call" -> node.args
      [] node.kind = "index" -> <<node.expr, node.index>>
      [] node.kind = "macro" -> <<>>
      [] node.kind = "item_fn" -> node.body

\* The nodes syn::visit::visit_<kind> descends into, in order.
Children(node) ==
    CASE node.kind = "path" -> <<>>
      [] node.kind = "lit" -> <<>>
      [] node.kind = "field" -> <<node.base>>
      [] node.kind = "call" -> <<node.func>> \o node.args
      [] node.kind = "method_call" -> <<node.receiver>> \o node.args
      [] node.kind = "index" -> <<node.expr, node.index>>
      [] node.kind = "macro" -> <<>>
      [] node.kind = "item_fn" -> node.body

-----------------------------------------------------------------------------
(* scanner.rs: Scanner's helpers                                           *)

\* `.take(40)` of find_line_in_source
SnippetPrefixLen == 40
\* `.take(120)` of the finding's code
CodeMaxLen == 120

\* Position of the first "\n" of s, or 0.
first_newline(s) ==
    IF \E i \in 1..Len(s) : SubSeq(s, i, i) = "\n"
    THEN CHOOSE i \in 1..Len(s) :
            /\ SubSeq(s, i, i) = "\n"
            /\ \A j \in 1..(i - 1) : SubSeq(s, j, j) # "\n"
    ELSE 0

\* A line without its trailing "\r", as str::lines yields it.
strip_cr(l) ==
    IF Len(l) > 0 /\ SubSeq(l, Len(l), Len(l)) = "\r"
    THEN SubSeq(l, 1, Len(l) - 1) ELSE l

RECURSIVE lines(_)
\* str::lines: the text split at "\n"; a final line needs no terminator and
\* an empty remainder after the last "\n" is no line.
lines(s) ==
    IF Len(s) = 0 THEN <<>>
    ELSE LET k == first_newline(s) IN
         IF k = 0 THEN <<strip_cr(s)>>
         ELSE <<strip_cr(SubSeq(s, 1, k - 1))>> \o lines(SubSeq(s, k + 1, Len(s)))

RECURSIVE search_lines(_, _, _)
\* The `for (line_num, line) in ...lines().enumerate()` loop from index
\* line_num (0-based): the first match returns line_num + 1, no match 1.
search_lines(ls, line_num, normalized_snippet) ==
    IF line_num >= Len(ls) THEN 1
    ELSE IF Contains(strip_whitespace(ls[line_num + 1]), normalized_snippet)
    THEN line_num + 1
    ELSE search_lines(ls, line_num + 1, normalized_snippet)

\* Mutant: the whole stripped snippet is searched, not its first 40 characters.
find_line_in_source_whole(current_source, code_snippet) ==
    LET normalized_snippet == strip_whitespace(code_snippet) IN
    IF Len(normalized_snippet) = 0 THEN 1
    ELSE search_lines(lines(current_source), 0, normalized_snippet)

\* Scanner::find_line_in_source
find_line_in_source(current_source, code_snippet) ==
    LET normalized_snippet == take(strip_whitespace(code_snippet), SnippetPrefixLen) IN
    IF Len(normalized_snippet) = 0 THEN 1
    ELSE search_lines(lines(current_source), 0, normalized_snippet)

\* Mutant: the finding keeps the whole text.
check_assumption_panic_untruncated(vulns, current_file, code, line) ==
    IF is_false_positive(code) THEN vulns
    ELSE LET c == classify_panic(code) IN
         Append(vulns, Vulnerability(current_file, to_string(line), c[1], c[2], c[3], code))

\* Scanner::check_assumption_panic: the findings list after the call.
check_assumption_panic(vulns, current_file, code, line) ==
    IF is_false_positive(code) THEN vulns
    ELSE LET c == classify_panic(code) IN
         Append(vulns, Vulnerability(current_file, to_string(line), c[1], c[2], c[3],
                                     take(code, CodeMaxLen)))

\* The condition of Scanner::check_panic_amplification, on the lower-cased text.
amplification_condition(lower) ==
    /\ (Contains(lower, "mutex") \/ Contains(lower, "rwlock"))
    /\ \/ Contains(lower, "lock(")
       \/ Contains(lower, "read(")
       \/ Contains(lower, "write(")

\* Mutant: the amplification check consults the false-positive filter.
check_panic_amplification_filtered(vulns, current_file, code, line) ==
    IF amplification_condition(to_lowercase(code)) /\ ~is_false_positive(code)
    THEN Append(vulns, Vulnerability(current_file, to_string(line), "Critical",
                                     "PanicAmplification",
                                     "Mutex/RwLock unwrap (panic amplification)",
                                     take(code, CodeMaxLen)))
    ELSE vulns

\* Scanner::check_panic_amplification: the findings list after the call.
check_panic_amplification(vulns, current_file, code, line) ==
    IF amplification_condition(to_lowercase(code))
    THEN Append(vulns, Vulnerability(current_file, to_string(line), "Critical",
                                     "PanicAmplification",
                                     "Mutex/RwLock unwrap (panic amplification)",
                                     take(code, CodeMaxLen)))
    ELSE vulns

\* `!self.in_test_code && !self.current_file.contains("/tests/")`
audited(in_test, current_file) == ~in_test /\ ~Contains(current_file, "/tests/")

\* attr.path().get_ident(): the identifier of a one-segment path, else None
\* (here the empty string).
get_ident(attr_path) == IF Len(attr_path) = 1 THEN attr_path[1] ELSE ""

\* The closure of visit_item_fn: some attribute is exactly `test` or `bench`.
is_test_fn(node) ==
    \E i \in 1..Len(node.attrs) : get_ident(node.attrs[i]) \in {"test", "bench"}

\* Mutant: the first path segment instead of the last.
macro_name_first(node) == IF Len(node.segs) = 0 THEN "" ELSE node.segs[1]

\* node.path.segments.last().map(|s| s.ident.to_string()).unwrap_or_default()
macro_name(node) == IF Len(node.segs) = 0 THEN "" ELSE node.segs[Len(node.segs)]

\* The match of Scanner::visit_macro: the findings list after it.
macro_findings(vulns, current_file, name, code, line) ==
    IF name \in {"todo", "unimplemented"}
    THEN Append(vulns, Vulnerability(current_file, to_string(line), "Critical",
                                     "ImplicitPanic", name \o "!()",
                                     take(code, CodeMaxLen)))
    ELSE IF name \in {"assert", "assert_eq", "assert_ne", "debug_assert"}
    THEN Append(vulns, Vulnerability(current_file, to_string(line), "Medium",
                                     "AssertionFailure", name \o "!()",
                                     take(code, CodeMaxLen)))
    ELSE IF name = "exit" /\ Contains(code, "std::process")
    THEN Append(vulns, Vulnerability(current_file, to_string(line), "Critical",
                                     "ProcessKilling", "process::exit()",
                                     take(code, CodeMaxLen)))
    ELSE vulns

-----------------------------------------------------------------------------
(* Input: source files.  A file is its path relative to the scan root, the  *)
(* outcome of fs::read_to_string, its text, the outcome of syn::parse_file  *)
(* and the items of the parsed file.  The text is the items written out one *)
(* statement per line, so text and tree always agree.                       *)

RECURSIVE Src(_)
\* An expression as its author wrote it (no space between tokens).
Src(node) ==
    CASE node.kind = "path" -> Join(node.segs, "::")
      [] node.kind = "lit" -> node.text
      [] node.kind = "field" -> Src(node.base) \o "." \o node.member
      [] node.kind = "call" ->
            Src(node.func) \o "("
            \o Join([i \in 1..Len(node.args) |-> Src(node.args[i])], ", ") \o ")"
      [] node.kind = "method_call" ->
            Src(node.receiver) \o "." \o node.method
            \o (IF node.turbofish = "" THEN "" ELSE "::<" \o node.turbofish \o ">")
            \o "("
            \o Join([i \in 1..Len(node.args) |-> Src(node.args[i])], ", ") \o ")"
      [] node.kind = "index" -> Src(node.expr) \o "[" \o Src(node.index) \o "]"
      [] node.kind = "macro" -> Join(node.segs, "::") \o "!(" \o node.tokens \o ")"

RECURSIVE SrcLines(_, _)
\* The source lines of a sequence of items or statements at an indentation.
SrcLines(nodes, indent) ==
    IF Len(nodes) = 0 THEN <<>>
    ELSE LET node == Head(nodes) IN
         (IF node.kind = "item_fn"
          THEN [i \in 1..Len(node.attrs) |->
                    indent \o "#[" \o Join(node.attrs[i], "::") \o "]"]
               \o <<indent
                    \o (IF ~node.abi.is_some THEN ""
                        ELSE IF node.abi.name_is_some THEN "extern \"C\" "
                        ELSE "extern ")
                    \o "fn " \o node.name \o "() {">>
               \o SrcLines(node.body, indent \o "    ")
               \o <<indent \o "}">>
          ELSE <<indent \o Src(node) \o ";">>)
         \o SrcLines(Tail(nodes), indent)

\* The file text: every line terminated by "\n".
SourceText(items) ==
    LET ls == SrcLines(items, "") IN
    Join(ls, "\n") \o (IF Len(ls) = 0 THEN "" ELSE "\n")

SourceFile(path, items) ==
    [path |-> path, readable |-> TRUE, source |-> SourceText(items),
     parses |-> TRUE, items |-> items]

\* A file whose text is no valid Rust: syn::parse_file returns Err.
BrokenFile(path, text) ==
    [path |-> path, readable |-> TRUE, source |-> text, parses |-> FALSE, items |-> <<>>]

\* A file fs::read_to_string fails on (not UTF-8, or unreadable).
UnreadableFile(path) ==
    [path |-> path, readable |-> FALSE, source |-> "", parses |-> FALSE, items |-> <<>>]

\* Expressions and macro invocations the inputs are built from.
Var(name) == Path(<<name>>)
CallUnwrap == MethodCall(Var("x"), "unwrap", "", <<>>)
CallExpect == MethodCall(Var("y"), "expect", "", <<Lit("\"msg\"")>>)
CallUnwrapUnchecked == MethodCall(Var("z"), "unwrap_unchecked", "", <<>>)
CallClone == MethodCall(Var("v"), "clone", "", <<>>)
CallUnwrapOr == MethodCall(Var("v"), "unwrap_or", "", <<Lit("0")>>)
ConfigRead ==
    MethodCall(Call(Path(<<"std", "fs", "read_to_string">>), <<Lit("\"config.toml\"")>>),
               "unwrap", "", <<>>)
FileRead ==
    MethodCall(Call(Path(<<"fs", "read_to_string">>), <<Var("p")>>), "unwrap", "", <<>>)
ParseCall ==
    MethodCall(MethodCall(Var("value"), "parse", "i32", <<>>), "unwrap", "", <<>>)
ArcTryUnwrap ==
    MethodCall(Call(Path(<<"Arc", "try_unwrap">>), <<Var("x")>>), "unwrap", "", <<>>)
WithCapacity ==
    MethodCall(MethodCall(Call(Path(<<"Vec", "with_capacity">>), <<Var("n")>>),
                          "pop", "", <<>>),
               "unwrap", "", <<>>)
MutexNamed == MethodCall(Var("my_mutex"), "unwrap", "", <<>>)
MutexLock ==
    MethodCall(MethodCall(Var("my_mutex"), "lock", "", <<>>), "unwrap", "", <<>>)
MutexLockExpect ==
    MethodCall(MethodCall(Var("m"), "lock", "", <<>>),
               "expect", "", <<Lit("\"mutex lock() poisoned\"")>>)
InnerLockExpect ==
    MethodCall(MethodCall(Field(Var("self"), "inner"), "lock", "", <<>>),
               "expect", "", <<Lit("\"self.inner mutex lock() poisoned\"")>>)
UncheckedAfterExpect ==
    MethodCall(MethodCall(Var("g"), "expect", "", <<Lit("\"rwlock write() poisoned\"")>>),
               "unwrap_unchecked", "", <<>>)
\* An expect call whose rendered text is longer than 120 characters.
LongMessageExpect ==
    MethodCall(Var("report"), "expect", "",
               <<Lit("\"the report could not be produced because the upstream service "
                     \o "did not answer within the configured time limit of the request\"")>>)

\* An expect call that the false-positive filter suppresses, on a receiver
\* that is an unwrap call.
SuppressedOverUnwrap ==
    MethodCall(MethodCall(Var("d"), "unwrap", "", <<>>), "expect", "",
               <<Lit("\"rc::try_unwrap\"")>>)

IndexExpr == Index(Var("a"), Var("i"))
NestedIndex == Index(Var("t"), Index(Var("b"), Var("j")))
Chain ==
    MethodCall(Index(Field(MethodCall(Var("c"), "unwrap", "", <<>>), "b"), Var("k")),
               "unwrap", "", <<>>)
TodoMacro == Macro(<<"todo">>, "")
UnimplementedMacro == Macro(<<"unimplemented">>, "")
AssertMacro == Macro(<<"assert">>, "n > 0")
AssertEqMacro == Macro(<<"assert_eq">>, "l , r")
AssertNeMacro == Macro(<<"assert_ne">>, "l , r")
DebugAssertMacro == Macro(<<"debug_assert">>, "ok")
QualifiedAssertMacro == Macro(<<"std", "assert">>, "ok")
ExitMacro == Macro(<<"exit">>, "\"std::process\"")
ExitPathMacro == Macro(<<"std", "process", "exit">>, "1")
BareExitMacro == Macro(<<"exit">>, "1")
PanicMacro == Macro(<<"panic">>, "\"boom\"")
UnreachableMacro == Macro(<<"unreachable">>, "")
DebugAssertEqMacro == Macro(<<"debug_assert_eq">>, "l , r")
\* An index and a macro whose text the false-positive filter matches.
IndexByKey == Index(Var("map"), Lit("\"self.inner\""))
TodoInner == Macro(<<"todo">>, "\"rc::try_unwrap\"")


\* Bounds of the inputs.
MaxFiles == 2
MaxDepth == 2

PlainFn(name, body) == ItemFn(<<>>, NoAbi, name, body)
TestFn(name, body) == ItemFn(<<<<"test">>>>, NoAbi, name, body)

LibFile ==
    SourceFile("src/lib.rs",
               <<PlainFn("run", <<CallUnwrap, CallExpect, CallUnwrapUnchecked, CallClone,
                                  CallUnwrapOr, ConfigRead, FileRead, ParseCall,
                                  ArcTryUnwrap, WithCapacity, Chain,
                                  LongMessageExpect>>)>>)
LocksFile ==
    SourceFile("src/locks.rs",
               <<PlainFn("hold", <<MutexLock, MutexNamed, MutexLockExpect, InnerLockExpect,
                                   UncheckedAfterExpect, SuppressedOverUnwrap>>)>>)
MacrosFile ==
    SourceFile("src/macros.rs",
               <<PlainFn("checks", <<TodoMacro, UnimplementedMacro, AssertMacro,
                                     AssertEqMacro, AssertNeMacro, DebugAssertMacro,
                                     QualifiedAssertMacro, ExitMacro, ExitPathMacro,
                                     BareExitMacro, PanicMacro, UnreachableMacro,
                                     DebugAssertEqMacro, IndexExpr, NestedIndex,
                                     IndexByKey, TodoInner>>)>>)
TestsDirItems ==
    <<PlainFn("helper", <<CallUnwrap, IndexExpr, TodoMacro>>),
      TestFn("case", <<CallExpect>>)>>
TestsTopFile == SourceFile("tests/api.rs", TestsDirItems)
TestsInnerFile == SourceFile("crates/a/tests/api.rs", TestsDirItems)
SyntaxErrorFile == BrokenFile("src/broken.rs", "fn broken( {\n    x.unwrap();\n")
BinaryFile == UnreadableFile("src/binary.rs")

FileCatalogue ==
    {LibFile, LocksFile, MacrosFile, TestsTopFile, TestsInnerFile, SyntaxErrorFile,
     BinaryFile}

\* Function items by attributes and ABI.
FnKinds ==
    {[attrs |-> <<>>, abi |-> NoAbi],
     [attrs |-> <<<<"test">>>>, abi |-> NoAbi],
     [attrs |-> <<<<"bench">>>>, abi |-> NoAbi],
     [attrs |-> <<<<"inline">>, <<"test">>>>, abi |-> NoAbi],
     [attrs |-> <<>>, abi |-> ExternCAbi],
     [attrs |-> <<>>, abi |-> ExternAbi]}

\* One of each construct the scanner detects.
Constructs ==
    {CallUnwrap, CallExpect, CallUnwrapUnchecked, IndexExpr, TodoMacro,
     UnimplementedMacro, AssertMacro, AssertEqMacro, AssertNeMacro, DebugAssertMacro,
     ExitMacro}

RECURSIVE Nest(_, _)
\* Function items nested as the chain says, outermost first; every body
\* holds the construct c before and after the function nested in it.
Nest(chain, c) ==
    LET k == Head(chain) IN
    ItemFn(k.attrs, k.abi, "f" \o to_string(Len(chain)),
           IF Len(chain) = 1 THEN <<c>> ELSE <<c, Nest(Tail(chain), c), c>>)

Chains == UNION {[1..d -> FnKinds] : d \in 1..MaxDepth}

NestedFiles == {SourceFile("src/nest.rs", <<Nest(ch, c)>>) : ch \in Chains, c \in Constructs}

\* The inputs of a scan: the ordered source files under the scan root.
ScanInputs ==
    UNION {[1..n -> FileCatalogue] : n \in 1..MaxFiles}
    \cup {<<f>> : f \in NestedFiles}

-----------------------------------------------------------------------------
(* The scan: audit.rs scan_directory driving the Scanner of scanner.rs.     *)

VARIABLES
    files,            \* rs_files: the input, fixed during a scan
    idx,              \* position of the `for entry in rs_files` loop
    pc,               \* "walk": in the loop; "visit": in visit_file; "done"
    current_file,     \* Scanner.current_file
    current_source,   \* Scanner.current_source
    in_test_code,     \* Scanner.in_test_code
    in_extern_fn,     \* Scanner.in_extern_fn
    vulnerabilities,  \* Scanner.vulnerabilities
    stack,            \* the pending work of the recursive traversal
    last,             \* history: the handler that ran last and what it saw
    arg               \* the argument of a direct call of a function (CallSpec)

vars ==
    <<files, idx, pc, current_file, current_source, in_test_code, in_extern_fn,
      vulnerabilities, stack, last, arg>>

\* A node still to visit; the rest of visit_item_fn after the descent.
VisitFrame(node) == [op |-> "visit", node |-> node]
LeaveFrame(node, was_in_test, was_in_extern) ==
    [op |-> "leave_fn", node |-> node, was_in_test |-> was_in_test,
     was_in_extern |-> was_in_extern]

Visits(nodes) == [i \in 1..Len(nodes) |-> VisitFrame(nodes[i])]

IsLeaveFrame(f) == f.op = "leave_fn"

\* The function items whose visit is in progress, innermost first.
Enclosing(stk) ==
    LET fs == SelectSeq(stk, IsLeaveFrame) IN [i \in 1..Len(fs) |-> fs[i].node]

\* Scanner::new, and rs_files collected.
ScannerNew ==
    /\ idx = 1
    /\ pc = "walk"
    /\ current_file = ""
    /\ current_source = ""
    /\ in_test_code = FALSE
    /\ in_extern_fn = FALSE
    /\ vulnerabilities = <<>>
    /\ stack = <<>>
    /\ last = [op |-> "new"]

Init ==
    /\ files \in ScanInputs
    /\ arg = [kind |-> "none"]
    /\ ScannerNew


\* in_test_code as visit_item_fn sets it on entering node.
enter_in_test(node) == is_test_fn(node)

\* in_extern_fn as visit_item_fn sets it on entering node.
enter_in_extern(was_in_extern, node) ==
    IF node.abi.is_some /\ node.abi.name_is_some THEN TRUE ELSE was_in_extern

\* Mutant: in_extern_fn is not put back on leaving an extern function.
restore_in_extern_sticky(frame) ==
    frame.was_in_extern \/ (frame.node.abi.is_some /\ frame.node.abi.name_is_some)

\* `self.in_test_code = was_in_test` / `self.in_extern_fn = was_in_extern`
restore_in_test(frame) == frame.was_in_test
restore_in_extern(frame) == frame.was_in_extern

\* Mutant: one name test for both checks, so that unwrap_unchecked also runs
\* the amplification check.
method_call_findings_one_match(vulns, in_test, file, source, node) ==
    IF audited(in_test, file) /\ node.method \in {"unwrap", "expect", "unwrap_unchecked"}
    THEN LET code == Render(node)
             line == find_line_in_source(source, code)
         IN  check_panic_amplification(check_assumption_panic(vulns, file, code, line),
                                       file, code, line)
    ELSE vulns

\* The body of visit_expr_method_call before the descent: the findings list
\* after it.
method_call_findings(vulns, in_test, file, source, node) ==
    IF audited(in_test, file)
    THEN LET code == Render(node)
             line == find_line_in_source(source, code)
             v1 == IF node.method \in {"unwrap", "expect", "unwrap_unchecked"}
                   THEN check_assumption_panic(vulns, file, code, line)
                   ELSE vulns
         IN  IF node.method = "unwrap" \/ node.method = "expect"
             THEN check_panic_amplification(v1, file, code, line)
             ELSE v1
    ELSE vulns

\* Mutant: indexing consults the false-positive filter.
index_findings_filtered(vulns, in_test, file, source, node) ==
    IF audited(in_test, file) /\ ~is_false_positive(Render(node))
    THEN Append(vulns, Vulnerability(file,
                                     to_string(find_line_in_source(source, Render(node))),
                                     "Medium", "ImplicitPanic", "Array/Slice Indexing",
                                     take(Render(node), CodeMaxLen)))
    ELSE vulns

\* The body of visit_expr_index before the descent.
index_findings(vulns, in_test, file, source, node) ==
    IF audited(in_test, file)
    THEN LET code == Render(node)
             line == find_line_in_source(source, code)
         IN  Append(vulns, Vulnerability(file, to_string(line), "Medium", "ImplicitPanic",
                                         "Array/Slice Indexing", take(code, CodeMaxLen)))
    ELSE vulns

\* The body of visit_macro before the descent.
visit_macro_findings(vulns, in_test, file, source, node) ==
    IF audited(in_test, file)
    THEN LET code == Render(node)
             line == find_line_in_source(source, code)
         IN  macro_findings(vulns, file, macro_name(node), code, line)
    ELSE vulns

\* What a visit handler records of itself.
Seen(op, node) ==
    [op |-> op, node |-> node, enclosing |-> Enclosing(stack),
     before |-> Len(vulnerabilities), in_test |-> in_test_code,
     in_extern |-> in_extern_fn, file |-> current_file]

AtNode(kinds) ==
    /\ pc = "visit"
    /\ Len(stack) > 0
    /\ Head(stack).op = "visit"
    /\ Head(stack).node.kind \in kinds

\* Mutant: a file that cannot be read or parsed ends the loop.
WalkFile_stops_on_failure ==
    /\ pc = "walk"
    /\ idx <= Len(files)
    /\ LET f == files[idx] IN
       /\ current_file' = f.path
       /\ current_source' = IF f.readable THEN f.source ELSE current_source
       /\ IF f.readable /\ f.parses
          THEN /\ pc' = "visit"
               /\ stack' = Visits(f.items)
               /\ idx' = idx
          ELSE /\ pc' = "walk"
               /\ stack' = <<>>
               /\ idx' = Len(files) + 1
       /\ last' = [op |-> "walk_file", file |-> f.path, before |-> Len(vulnerabilities)]
    /\ UNCHANGED <<files, in_test_code, in_extern_fn, vulnerabilities, arg>>

\* One turn of `for entry in rs_files`: current_file and current_source are
\* set, and a file that reads and parses is handed to visit_file.
WalkFile ==
    /\ pc = "walk"
    /\ idx <= Len(files)
    /\ LET f == files[idx] IN
       /\ current_file' = f.path
       /\ current_source' = IF f.readable THEN f.source ELSE current_source
       /\ IF f.readable /\ f.parses
          THEN /\ pc' = "visit"
               /\ stack' = Visits(f.items)
               /\ idx' = idx
          ELSE /\ pc' = "walk"
               /\ stack' = <<>>
               /\ idx' = idx + 1
       /\ last' = [op |-> "walk_file", file |-> f.path, before |-> Len(vulnerabilities)]
    /\ UNCHANGED <<files, in_test_code, in_extern_fn, vulnerabilities, arg>>

\* visit_file has visited every item: the loop goes to the next entry.
FileDone ==
    /\ pc = "visit"
    /\ Len(stack) = 0
    /\ pc' = "walk"
    /\ idx' = idx + 1
    /\ last' = [op |-> "file_done", file |-> current_file]
    /\ UNCHANGED <<files, current_file, current_source, in_test_code, in_extern_fn,
                   vulnerabilities, stack, arg>>

\* The loop is over: scan_directory returns scanner.vulnerabilities.
Return ==
    /\ pc = "walk"
    /\ idx > Len(files)
    /\ pc' = "done"
    /\ last' = [op |-> "return"]
    /\ UNCHANGED <<files, idx, current_file, current_source, in_test_code, in_extern_fn,
                   vulnerabilities, stack, arg>>

\* visit_item_fn up to and including the call of syn::visit::visit_item_fn.
VisitItemFn ==
    /\ AtNode({"item_fn"})
    /\ LET node == Head(stack).node IN
       /\ in_test_code' = enter_in_test(node)
       /\ in_extern_fn' = enter_in_extern(in_extern_fn, node)
       /\ stack' = Visits(Children(node))
                   \o <<LeaveFrame(node, in_test_code, in_extern_fn)>> \o Tail(stack)
       /\ last' = Seen("visit_item_fn", node)
    /\ UNCHANGED <<files, idx, pc, current_file, current_source, vulnerabilities, arg>>

\* visit_item_fn after the descent: both flags are restored.
LeaveItemFn ==
    /\ pc = "visit"
    /\ Len(stack) > 0
    /\ Head(stack).op = "leave_fn"
    /\ in_test_code' = restore_in_test(Head(stack))
    /\ in_extern_fn' = restore_in_extern(Head(stack))
    /\ stack' = Tail(stack)
    /\ last' = [op |-> "leave_item_fn", node |-> Head(stack).node,
                in_test |-> in_test_code, in_extern |-> in_extern_fn]
    /\ UNCHANGED <<files, idx, pc, current_file, current_source, vulnerabilities, arg>>

VisitExprMethodCall ==
    /\ AtNode({"method_call"})
    /\ LET node == Head(stack).node IN
       /\ vulnerabilities' = method_call_findings(vulnerabilities, in_test_code,
                                                  current_file, current_source, node)
       /\ stack' = Visits(Children(node)) \o Tail(stack)
       /\ last' = Seen("visit_expr_method_call", node)
    /\ UNCHANGED <<files, idx, pc, current_file, current_source, in_test_code,
                   in_extern_fn, arg>>

VisitExprIndex ==
    /\ AtNode({"index"})
    /\ LET node == Head(stack).node IN
       /\ vulnerabilities' = index_findings(vulnerabilities, in_test_code,
                                            current_file, current_source, node)
       /\ stack' = Visits(Children(node)) \o Tail(stack)
       /\ last' = Seen("visit_expr_index", node)
    /\ UNCHANGED <<files, idx, pc, current_file, current_source, in_test_code,
                   in_extern_fn, arg>>

VisitMacro ==
    /\ AtNode({"macro"})
    /\ LET node == Head(stack).node IN
       /\ vulnerabilities' = visit_macro_findings(vulnerabilities, in_test_code,
                                                  current_file, current_source, node)
       /\ stack' = Visits(Children(node)) \o Tail(stack)
       /\ last' = Seen("visit_macro", node)
    /\ UNCHANGED <<files, idx, pc, current_file, current_source, in_test_code,
                   in_extern_fn, arg>>

\* Every other node: the default syn::visit method only descends.
VisitOther ==
    /\ AtNode({"path", "lit", "field", "call"})
    /\ LET node == Head(stack).node IN
       /\ stack' = Visits(Children(node)) \o Tail(stack)
       /\ last' = Seen("visit_other", node)
    /\ UNCHANGED <<files, idx, pc, current_file, current_source, in_test_code,
                   in_extern_fn, vulnerabilities, arg>>

Next ==
    \/ WalkFile
    \/ FileDone
    \/ Return
    \/ VisitItemFn
    \/ LeaveItemFn
    \/ VisitExprMethodCall
    \/ VisitExprIndex
    \/ VisitMacro
    \/ VisitOther

Spec == Init /\ [][Next]_vars


-----------------------------------------------------------------------------
(* Notions the properties are stated in.                                   *)

\* The findings the last handler appended.
Added == SubSeq(vulnerabilities, last.before + 1, Len(vulnerabilities))

Summary(v) == <<v.severity, v.panic_class, v.pattern>>

\* The function item carries #[test] or #[bench].
HasTestAttr(fn) == \E i \in 1..Len(fn.attrs) : fn.attrs[i] \in {<<"test">>, <<"bench">>}

\* Some function item around the node, at any depth, is a test function.
InsideTestFn(enclosing) == \E i \in 1..Len(enclosing) : HasTestAttr(enclosing[i])

\* The function item whose body the node belongs to is a test function.
OwnFnIsTest(enclosing) == Len(enclosing) > 0 /\ HasTestAttr(enclosing[1])

RECURSIVE SplitPath(_)
\* The segments of a path, split at "/".
SplitPath(p) ==
    IF \E i \in 1..Len(p) : SubSeq(p, i, i) = "/"
    THEN LET k == CHOOSE i \in 1..Len(p) :
                     /\ SubSeq(p, i, i) = "/"
                     /\ \A j \in 1..(i - 1) : SubSeq(p, j, j) # "/"
         IN  <<SubSeq(p, 1, k - 1)>> \o SplitPath(SubSeq(p, k + 1, Len(p)))
    ELSE <<p>>

\* Some directory segment of the path is named `tests`.
HasTestsDir(p) ==
    LET segs == SplitPath(p) IN \E i \in 1..(Len(segs) - 1) : segs[i] = "tests"

\* Neither in a test function nor in a tests directory.
OutsideTestContext(l) == ~InsideTestFn(l.enclosing) /\ ~HasTestsDir(l.file)

DetectableMacros ==
    {"todo", "unimplemented", "assert", "assert_eq", "assert_ne", "debug_assert", "exit"}

\* The node is one of the constructs the scanner reports.
Detectable(node) ==
    \/ node.kind = "method_call" /\ node.method \in {"unwrap", "expect", "unwrap_unchecked"}
    \/ node.kind = "index"
    \/ node.kind = "macro" /\ Len(node.segs) > 0
       /\ node.segs[Len(node.segs)] \in DetectableMacros

ConstructVisit ==
    last.op \in {"visit_expr_method_call", "visit_expr_index", "visit_macro"}

\* p occurs in s, letter case ignored.
ContainsIgnoreCase(s, p) ==
    \E i \in 1..(Len(s) - Len(p) + 1) :
        \A k \in 1..Len(p) :
            lower_char(SubSeq(s, i + k - 1, i + k - 1)) = lower_char(SubSeq(p, k, k))

RECURSIVE NamesMutex(_)
\* Some identifier of the expression has a name containing "mutex".
NamesMutex(expr) ==
    \/ expr.kind = "path" /\ \E i \in 1..Len(expr.segs) : ContainsIgnoreCase(expr.segs[i], "mutex")
    \/ \E i \in 1..Len(Children(expr)) : NamesMutex(Children(expr)[i])

-----------------------------------------------------------------------------
(* Properties of the scan.                                                 *)

\* C1: a detectable construct that lies inside the body of a function item
\* annotated #[test] or #[bench], at any nesting depth (also inside a plain
\* function item nested in that body), appends no finding.
C1_TestCodeNotAudited ==
    (ConstructVisit /\ Detectable(last.node) /\ InsideTestFn(last.enclosing))
        => Len(Added) = 0

\* C2: no finding is ever recorded for a file whose relative path has a
\* directory segment named `tests`, first or interior.
C2_TestsDirectoryNotAudited ==
    \A i \in 1..Len(vulnerabilities) : ~HasTestsDir(vulnerabilities[i].file)

\* in_test_code / in_extern_fn as the lexical position alone determines them.
LexicalInTest(enclosing) == OwnFnIsTest(enclosing)
LexicalInExtern(enclosing) ==
    \E i \in 1..Len(enclosing) : enclosing[i].abi.is_some /\ enclosing[i].abi.name_is_some

\* C3: stack discipline.  During a traversal both flags are functions of the
\* function items whose visit is in progress, so the return of a visit puts
\* them back to what they were before it began; outside a traversal (before
\* the first item of a file, after the last) both are false.
C3_StackDiscipline ==
    /\ pc = "visit" =>
          /\ in_test_code = LexicalInTest(Enclosing(stack))
          /\ in_extern_fn = LexicalInExtern(Enclosing(stack))
    /\ pc # "visit" => (~in_test_code /\ ~in_extern_fn)

\* A nested extern "C" function inside a test function has just returned:
\* in_extern_fn is false again and in_test_code true again.
C3_Witness ==
    /\ last.op = "leave_item_fn"
    /\ last.in_extern /\ ~last.in_test
    /\ ~in_extern_fn /\ in_test_code

\* C4: an unwrap call whose receiver is named after a mutex appends at least
\* one Critical PanicAmplification finding, whatever surrounds the call.
C4_MutexUnwrapAmplified ==
    (/\ last.op = "visit_expr_method_call"
     /\ last.node.method = "unwrap"
     /\ NamesMutex(last.node.receiver))
        => \E i \in 1..Len(Added) :
              /\ Added[i].severity = "Critical"
              /\ Added[i].panic_class = "PanicAmplification"


Summaries(vs) == [i \in 1..Len(vs) |-> Summary(vs[i])]

\* C7: an indexing node visited outside test context appends exactly one
\* Medium ImplicitPanic "Array/Slice Indexing" finding, whatever its text
\* (every nested index node its own); an indexing node in the body of a test
\* function appends none.
C7_IndexingFinding ==
    last.op = "visit_expr_index" =>
        /\ OutsideTestContext(last) =>
              Summaries(Added) = <<<<"Medium", "ImplicitPanic", "Array/Slice Indexing">>>>
        /\ OwnFnIsTest(last.enclosing) => Len(Added) = 0

\* The inner index of `t[b[j]]` got its own finding right after the outer's.
C7_Witness ==
    /\ last.op = "visit_expr_index"
    /\ last.node = Index(Var("b"), Var("j"))
    /\ OutsideTestContext(last)
    /\ Len(Added) = 1
    /\ Added[1].code = "b [j]"
    /\ last.before >= 1
    /\ vulnerabilities[last.before].pattern = "Array/Slice Indexing"
    /\ vulnerabilities[last.before].code = "t [b [j]]"

\* What C8 says a macro invocation yields, by the final segment of its path
\* and, for `exit`, by the presence of the process path in the rendered text.
MacroExpected(name, code) ==
    IF name \in {"todo", "unimplemented"}
    THEN <<<<"Critical", "ImplicitPanic", name \o "!()">>>>
    ELSE IF name \in {"assert", "assert_eq", "assert_ne", "debug_assert"}
    THEN <<<<"Medium", "AssertionFailure", name \o "!()">>>>
    ELSE IF name = "exit" /\ Contains(code, "std::process")
    THEN <<<<"Critical", "ProcessKilling", "process::exit()">>>>
    ELSE <<>>

C9_MethodCallChecks ==
    (last.op = "visit_expr_method_call" /\ OutsideTestContext(last)) =>
        LET m == last.node.method
            code == Render(last.node)
            assumption == IF m \in {"unwrap", "expect", "unwrap_unchecked"}
                          THEN check_assumption_panic(<<>>, last.file, code, 1)
                          ELSE <<>>
            amplification == IF m \in {"unwrap", "expect"}
                             THEN check_panic_amplification(<<>>, last.file, code, 1)
                             ELSE <<>>
        IN  /\ Summaries(Added) = Summaries(assumption \o amplification)
            /\ Len(Added) <= 2
            /\ m \notin {"unwrap", "expect", "unwrap_unchecked"} => Len(Added) = 0
            /\ m = "unwrap_unchecked" =>
                  \A i \in 1..Len(Added) : Added[i].panic_class # "PanicAmplification"
            /\ Len(Added) = 2 =>
                  /\ Added[1].panic_class # "PanicAmplification"
                  /\ Added[2].panic_class = "PanicAmplification"

\* One expect call appended an assumption finding and then an amplification
\* finding.
C9_Witness ==
    /\ last.op = "visit_expr_method_call"
    /\ last.node = MutexLockExpect
    /\ OutsideTestContext(last)
    /\ Len(Added) = 2
    /\ Added[1].panic_class = "AssumptionPanic"
    /\ Added[2].panic_class = "PanicAmplification"

\* ---------------------------------------------------------------------------
\* Direct calls of the classification rules and of the line search.
\* ---------------------------------------------------------------------------

MaxParts == 2
MaxLines == 3

\* A fragment of code text and the features it carries; the features are
\* stated by hand for each fragment, they are not computed by text search.
Part(s, tags) == [s |-> s, tags |-> tags]

\* Fragments that are combined with each other.
CoreParts ==
    << Part("File::open(p)", {"file_read", "file_io", "io_word"}),
       Part("fs::read(p)", {"file_read", "file_io", "io_word", "acquire"}),
       Part("File::create(p)", {"file_io", "io_word"}),
       Part("\"app.toml\"", {"config"}),
       Part("SETTINGS", {"config"}),
       Part("TcpStream::connect(a)", {"socket"}),
       Part("reqwest", {"http_lib"}),
       Part("req.send()", {"send"}),
       Part("Vec::with_capacity(n)", {"alloc"}),
       Part("s.parse::<u8>()", {"parse"}),
       Part("c.query(q)", {"db_call"}),
       Part("diesel", {"db_lib"}),
       Part("env::var(k)", {"env"}),
       Part("Arc::try_unwrap(a)", {"rc_try_unwrap", "unwrap_expect"}),
       Part("self.inner", {"inner"}),
       Part("w.inner()", {"inner"}),
       Part("profile", {"io_word"}),
       Part("my_mutex", {"lock_name"}),
       Part("m.lock()", {"acquire"}),
       Part("l.read()", {"acquire", "io_word"}) >>

\* Fragments that are tried alone, one for every other pattern of the rules.
OtherParts ==
    << Part("read_to_string(p)", {"file_read", "file_io", "io_word"}),
       Part("fs::write(p, d)", {"file_io", "acquire"}),
       Part("\"a.yaml\"", {"config"}),
       Part("\"a.json\"", {"config"}),
       Part("\"a.ini\"", {"config"}),
       Part("\"a.conf\"", {"config"}),
       Part("Config", {"config"}),
       Part("feature", {"config"}),
       Part("TcpListener::bind(a)", {"socket"}),
       Part("UdpSocket::bind(a)", {"socket"}),
       Part("hyper", {"http_lib"}),
       Part("v.reserve(n)", {"alloc"}),
       Part("str::parse(s)", {"parse"}),
       Part("T::from_str(s)", {"parse"}),
       Part("serde_json::from_slice(b)", {"parse"}),
       Part("toml::from_slice(b)", {"parse"}),
       Part("serde_yaml::from_slice(b)", {"parse"}),
       Part("c.execute(q)", {"db_call"}),
       Part("rows.fetch_one()", {"db_call"}),
       Part("sqlx", {"db_lib"}),
       Part("postgres", {"db_lib"}),
       Part("Rc::try_unwrap(r)", {"rc_try_unwrap", "unwrap_expect"}),
       Part("thread", {"io_word"}),
       Part("download", {"io_word"}),
       Part("RwLock", {"lock_name"}),
       Part("l.write()", {"acquire"}) >>

CodeParts == CoreParts \o OtherParts

CodeSuffixes ==
    << Part("", {}),
       Part(".unwrap()", {"unwrap_expect"}),
       Part(".expect(\"e\")", {"unwrap_expect"}) >>

\* Whole expressions, as written in a source file and as rendered by the scanner.
CodeExamples ==
    { Part("std::fs::read_to_string(\"config.toml\").unwrap()",
           {"file_read", "file_io", "io_word", "config", "unwrap_expect"}),
      Part("value.parse::<i32>().unwrap()", {"parse", "unwrap_expect"}),
      Part("Arc::try_unwrap(x).unwrap()", {"rc_try_unwrap", "unwrap_expect"}),
      Part(Render(ConfigRead),
           {"file_read", "file_io", "io_word", "config", "unwrap_expect"}),
      Part(Render(ParseCall), {"unwrap_expect"}),
      Part(Render(ArcTryUnwrap), {"unwrap_expect"}),
      Part(Render(MutexLock), {"lock_name", "unwrap_expect"}),
      Part(Render(InnerLockExpect), {"inner", "lock_name", "acquire", "unwrap_expect"}) }

\* Strictly increasing index sequences of length at most k over the indices of
\* CoreParts.
RECURSIVE Combos(_)
Combos(k) ==
    IF k = 0 THEN {<<>>}
    ELSE LET shorter == Combos(k - 1)
             from(c) == IF Len(c) = 0 THEN 1 ELSE c[Len(c)] + 1
         IN  shorter \cup
             UNION { { Append(c, i) : i \in from(c)..Len(CoreParts) } :
                     c \in {d \in shorter : Len(d) = k - 1} }

ComposedCode(c, sfx) ==
    Part(Join([i \in 1..Len(c) |-> CodeParts[c[i]].s], " ") \o CodeSuffixes[sfx].s,
         UNION { CodeParts[c[i]].tags : i \in 1..Len(c) } \cup CodeSuffixes[sfx].tags)

CodeInputs ==
    { ComposedCode(c, sfx) : c \in Combos(MaxParts) \cup {<<i>> : i \in 1..Len(CodeParts)},
                             sfx \in 1..Len(CodeSuffixes) }
    \cup CodeExamples

\* Source lines and snippets for the line search.
LongCall == "compute_the_configuration_value_from"

SourceLines ==
    << "fn main() {",
       "    x.unwrap();",
       "\tlet v = x . unwrap( );\r",
       "",
       "    " \o LongCall \o "(the_long_argument_name)",
       "}" >>

LongSnippet == LongCall \o " (the_long_argument_name) . unwrap ()"

Snippets == {"", " \t ", "x . unwrap ()", "y . expect (\"msg\")", LongSnippet}

RECURSIVE LineSeqs(_)
LineSeqs(n) ==
    IF n = 0 THEN {<<>>}
    ELSE LET shorter == LineSeqs(n - 1) IN
         shorter \cup
         { Append(ls, i) : ls \in {m \in shorter : Len(m) = n - 1},
                           i \in 1..Len(SourceLines) }

\* The text of a file with the given lines; the last line may lack its newline.
TextOf(ls, terminated) ==
    LET text == Join([i \in 1..Len(ls) |-> SourceLines[ls[i]]], "\n") IN
    IF terminated /\ Len(ls) > 0 THEN text \o "\n" ELSE text

LineInputs ==
    { [kind |-> "line", ls |-> ls, terminated |-> t, snippet |-> sn] :
      ls \in LineSeqs(MaxLines), t \in BOOLEAN, sn \in Snippets }

\* A finding recorded before the call.
PriorFinding ==
    Vulnerability("src/lib.rs", "7", "Low", "AssumptionPanic", "General Unwrap",
                  "y . unwrap ()")

CallInit ==
    /\ arg \in { [kind |-> "code", code |-> c.s, tags |-> c.tags] : c \in CodeInputs }
               \cup LineInputs
    /\ files = <<>>
    /\ idx = 1
    /\ pc = "call"
    /\ current_file = "src/lib.rs"
    /\ current_source = IF arg.kind = "line" THEN TextOf(arg.ls, arg.terminated) ELSE ""
    /\ in_test_code = FALSE
    /\ in_extern_fn = FALSE
    /\ vulnerabilities = <<PriorFinding>>
    /\ stack = <<>>
    /\ last = [op |-> "new"]

Called(op, ret) ==
    /\ pc' = "called"
    /\ last' = [op |-> op, ret |-> ret, before |-> Len(vulnerabilities)]
    /\ UNCHANGED <<files, idx, current_file, current_source, in_test_code,
                   in_extern_fn, stack, arg>>

CallClassifyPanic ==
    /\ pc = "call"
    /\ arg.kind = "code"
    /\ Called("classify_panic", classify_panic(arg.code))
    /\ UNCHANGED vulnerabilities

CallIsFalsePositive ==
    /\ pc = "call"
    /\ arg.kind = "code"
    /\ Called("is_false_positive", is_false_positive(arg.code))
    /\ UNCHANGED vulnerabilities

CallCheckAssumptionPanic ==
    /\ pc = "call"
    /\ arg.kind = "code"
    /\ vulnerabilities' = check_assumption_panic(vulnerabilities, current_file, arg.code, 1)
    /\ Called("check_assumption_panic", <<>>)

CallCheckPanicAmplification ==
    /\ pc = "call"
    /\ arg.kind = "code"
    /\ vulnerabilities' = check_panic_amplification(vulnerabilities, current_file, arg.code, 1)
    /\ Called("check_panic_amplification", <<>>)

CallFindLineInSource ==
    /\ pc = "call"
    /\ arg.kind = "line"
    /\ Called("find_line_in_source", find_line_in_source(current_source, arg.snippet))
    /\ UNCHANGED vulnerabilities

CallNext ==
    \/ CallClassifyPanic
    \/ CallIsFalsePositive
    \/ CallCheckAssumptionPanic
    \/ CallCheckPanicAmplification
    \/ CallFindLineInSource

CallSpec == CallInit /\ [][CallNext]_vars

\* The rule a text with the given features falls under, by the priority list.
ExpectedClass(tags) ==
    IF {"file_read", "config"} \subseteq tags
    THEN <<"Critical", "CloudflareClass",
           "Config/Feature File Loading (Cloudflare Pattern)">>
    ELSE IF {"file_io", "unwrap_expect"} \subseteq tags
    THEN <<"Critical", "AssumptionPanic", "File I/O Operation">>
    ELSE IF {"socket", "unwrap_expect"} \subseteq tags
    THEN <<"Critical", "AssumptionPanic", "Network Socket Operation">>
    ELSE IF {"http_lib", "send"} \subseteq tags
    THEN <<"Critical", "AssumptionPanic", "HTTP Request">>
    ELSE IF "alloc" \in tags
    THEN <<"High", "AllocationPanic", "Allocation with Potential Untrusted Size">>
    ELSE IF "parse" \in tags
    THEN <<"High", "AssumptionPanic", "Parsing Operation">>
    ELSE IF {"db_call", "db_lib"} \subseteq tags
    THEN <<"High", "AssumptionPanic", "Database Operation">>
    ELSE IF "env" \in tags
    THEN <<"Medium", "AssumptionPanic", "Environment Variable">>
    ELSE <<"Low", "AssumptionPanic", "General Unwrap">>

\* The texts the false-positive filter is specified to suppress.
ExpectedSuppressed(tags) ==
    \/ "rc_try_unwrap" \in tags
    \/ "inner" \in tags /\ "io_word" \notin tags

C6_AmplificationWitness ==
    /\ last.op = "check_panic_amplification"
    /\ ExpectedSuppressed(arg.tags)
    /\ Len(vulnerabilities) = 2

\* The lines of the file that contain the first 40 non-whitespace characters
\* of the snippet, once their own whitespace is removed.
MatchingLines ==
    LET prefix == take(strip_whitespace(arg.snippet), SnippetPrefixLen) IN
    { i \in 1..Len(arg.ls) :
        Contains(strip_whitespace(SourceLines[arg.ls[i]]), prefix) }

Min(S) == CHOOSE m \in S : \A n \in S : m <= n

\* C10: find_line_in_source returns the 1-based number of the first line whose
\* whitespace-stripped content contains the first 40 non-whitespace characters
\* of the snippet; it returns 1 if no line does or the stripped snippet is
\* empty; the result is at least 1 and at most max(1, number of lines).
C10_FindLineInSource ==
    last.op = "find_line_in_source" =>
        /\ last.ret =
               IF strip_whitespace(arg.snippet) = "" \/ MatchingLines = {}
               THEN 1
               ELSE Min(MatchingLines)
        /\ last.ret >= 1
        /\ last.ret <= IF Len(arg.ls) = 0 THEN 1 ELSE Len(arg.ls)

\* A snippet longer than 40 non-whitespace characters was found on a later
\* line that holds its first 40 characters but not the whole of it.
C10_Witness ==
    /\ last.op = "find_line_in_source"
    /\ arg.snippet = LongSnippet
    /\ last.ret = 2
    /\ ~Contains(strip_whitespace(SourceLines[arg.ls[2]]), strip_whitespace(arg.snippet))

\* ---------------------------------------------------------------------------
\* The walk over the files.
\* ---------------------------------------------------------------------------

\* A checking handler is the next step of the traversal.
AtCheckedNode == AtNode({"method_call", "index", "macro"})

\* The loop of scan_directory and the traversal are sequential code: a step
\* that is possible is taken. This is weak fairness of Next; for the three
\* checking handlers, which are enabled exactly at a node of their kind, it
\* is written out.
LiveSpec ==
    /\ Init
    /\ [][Next]_vars
    /\ WF_vars(WalkFile \/ FileDone \/ Return \/ VisitItemFn \/ LeaveItemFn \/ VisitOther)
    /\ \/ []<>(~AtCheckedNode)
       \/ []<><<VisitExprMethodCall \/ VisitExprIndex \/ VisitMacro>>_vars

IsPrefix(s, t) == Len(s) <= Len(t) /\ SubSeq(t, 1, Len(s)) = s

\* The loop is at a file that cannot be read or does not parse.
AtFailingFile ==
    /\ pc = "walk"
    /\ idx <= Len(files)
    /\ ~(files[idx].readable /\ files[idx].parses)

\* C11: a file that does not parse adds no finding and the walk goes on to
\* the next file; every step keeps the findings list as a prefix of the new
\* one; the walk passes the files one by one, none is left out when the scan
\* returns, and the scan does return.
C11_UnparseableSkipped ==
    /\ [][/\ IsPrefix(vulnerabilities, vulnerabilities')
          /\ AtFailingFile =>
                 /\ vulnerabilities' = vulnerabilities
                 /\ pc' = "walk"
                 /\ idx' = idx + 1]_vars
    /\ [][idx' = idx \/ (idx' = idx + 1 /\ idx <= Len(files))]_vars
    /\ [](pc = "done" => idx = Len(files) + 1)
    /\ <>(pc = "done")

\* The first file did not parse, the second one is being traversed and has
\* produced a finding.
C11_Witness ==
    /\ Len(files) = 2
    /\ files[1].readable /\ ~files[1].parses
    /\ idx = 2
    /\ pc = "visit"
    /\ Len(vulnerabilities) > 0

\* ---------------------------------------------------------------------------
\* The fields of a finding.
\* ---------------------------------------------------------------------------

RECURSIVE CountChar(_, _)
CountChar(s, c) ==
    IF Len(s) = 0 THEN 0
    ELSE IF Len(s) = 1 THEN (IF s = c THEN 1 ELSE 0)
    ELSE LET h == Len(s) \div 2 IN
         CountChar(SubSeq(s, 1, h), c) + CountChar(SubSeq(s, h + 1, Len(s)), c)

\* The number of lines of a text: one for each newline, and one more for
\* text after the last newline.
LineCount(s) ==
    CountChar(s, "\n")
    + (IF Len(s) > 0 /\ SubSeq(s, Len(s), Len(s)) # "\n" THEN 1 ELSE 0)

\* The decimal texts of the line numbers a finding in a file of that text
\* may carry.
LineTexts(s) ==
    { to_string(n) : n \in 1..(IF LineCount(s) = 0 THEN 1 ELSE LineCount(s)) }

\* v names the file f, a line of f's text, and carries a non-empty text of at
\* most 120 characters.
AttributedTo(v, f) ==
    /\ v.file = f.path
    /\ f.readable /\ f.parses
    /\ v.line \in LineTexts(f.source)
    /\ Len(v.code) > 0
    /\ Len(v.code) <= 120

\* C12: every finding names the file that was being traversed when it was
\* created and a line between 1 and max(1, number of lines) of that file's
\* text; its code is not empty, has at most 120 characters and is a prefix
\* of the rendered text of the node; a finding, once appended, is neither
\* modified nor removed.
C12_FindingAttribution ==
    /\ [](pc = "done" =>
              \A i \in 1..Len(vulnerabilities) :
                  \E k \in 1..Len(files) : AttributedTo(vulnerabilities[i], files[k]))
    /\ [][/\ IsPrefix(vulnerabilities, vulnerabilities')
          /\ \A i \in (Len(vulnerabilities) + 1)..Len(vulnerabilities') :
                 /\ pc = "visit"
                 /\ vulnerabilities'[i].file = current_file
                 /\ AttributedTo(vulnerabilities'[i], files[idx])
                 /\ vulnerabilities'[i].code = take(Render(Head(stack).node), 120)]_vars

\* In the second file of a scan, a finding was appended whose node renders to
\* more than 120 characters, after a first file that produced findings.
C12_Witness ==
    /\ idx = 2
    /\ last.op = "visit_expr_method_call"
    /\ Len(Render(last.node)) > 120
    /\ last.before > 0
    /\ Len(vulnerabilities) = last.before + 1
    /\ Len(vulnerabilities[Len(vulnerabilities)].code) = 120
    /\ vulnerabilities[1].file # vulnerabilities[Len(vulnerabilities)].file

\* ---------------------------------------------------------------------------
\* main after scan_directory has returned: clean-up, report, exit code.
\* ---------------------------------------------------------------------------

MaxFindings == 4

\* The position of a severity in the declaration of the enum, which
\* #[derive(Ord)] compares by.
severity_rank(s) == CHOOSE i \in 1..Len(Severity) : Severity[i] = s

\* Mutant: the comparison with its arguments exchanged.
severity_cmp_reversed(a, b) ==
    IF severity_rank(b.severity) < severity_rank(a.severity) THEN "Less"
    ELSE IF severity_rank(b.severity) > severity_rank(a.severity) THEN "Greater"
    ELSE "Equal"

\* a.severity.cmp(&b.severity)
severity_cmp(a, b) ==
    IF severity_rank(a.severity) < severity_rank(b.severity) THEN "Less"
    ELSE IF severity_rank(a.severity) > severity_rank(b.severity) THEN "Greater"
    ELSE "Equal"

RECURSIVE insert_tail(_, _)
\* One step of the stable insertion sort that slice::sort_by runs on short
\* slices: v moves left past the elements that compare Greater than it.
insert_tail(sorted, v) ==
    IF Len(sorted) > 0 /\ severity_cmp(v, sorted[Len(sorted)]) = "Less"
    THEN Append(insert_tail(SubSeq(sorted, 1, Len(sorted) - 1), v), sorted[Len(sorted)])
    ELSE Append(sorted, v)

RECURSIVE sort_by_severity(_)
\* vulnerabilities.sort_by(|a, b| a.severity.cmp(&b.severity))
sort_by_severity(vulns) ==
    IF Len(vulns) = 0 THEN <<>>
    ELSE insert_tail(sort_by_severity(SubSeq(vulns, 1, Len(vulns) - 1)), vulns[Len(vulns)])

\* One finding of each severity, as the scanner produces them, at a line.
FindingOf(severity, line) ==
    CASE severity = "Critical" ->
             Vulnerability("src/lib.rs", to_string(line), "Critical", "ImplicitPanic",
                           "todo!()", "todo ! ()")
      [] severity = "High" ->
             Vulnerability("src/lib.rs", to_string(line), "High", "AllocationPanic",
                           "Allocation with Potential Untrusted Size",
                           "Vec :: with_capacity (n) . pop () . unwrap ()")
      [] severity = "Medium" ->
             Vulnerability("src/lib.rs", to_string(line), "Medium", "ImplicitPanic",
                           "Array/Slice Indexing", "a [i]")
      [] severity = "Low" ->
             Vulnerability("src/lib.rs", to_string(line), "Low", "AssumptionPanic",
                           "General Unwrap", "x . unwrap ()")

\* The lists scan_directory may return: up to MaxFindings findings, one per
\* line, of any severities in any order.
ScanResults ==
    UNION { { [i \in 1..n |-> FindingOf(sev[i], i)] :
              sev \in [1..n -> {Severity[k] : k \in 1..Len(Severity)}] } :
            n \in 0..MaxFindings }

\* The fields of Args that main and print_report branch on after the scan.
ArgsAfterScan ==
    { [kind |-> "args", fail_on_findings |-> f, json |-> j, local |-> l] :
      f \in BOOLEAN, j \in BOOLEAN, l \in BOOLEAN }

MainInit ==
    /\ arg \in ArgsAfterScan
    /\ vulnerabilities \in ScanResults
    /\ pc = "scanned"
    /\ files = <<>>
    /\ idx = 1
    /\ current_file = ""
    /\ current_source = ""
    /\ in_test_code = FALSE
    /\ in_extern_fn = FALSE
    /\ stack = <<>>
    /\ last = [op |-> "scan_directory"]

\* `if cleanup_needed { fs::remove_dir_all(&scan_path)?; }`: a failure is
\* returned from main as an error.
Cleanup ==
    /\ pc = "scanned"
    /\ \E removed \in BOOLEAN :
           IF arg.local \/ removed
           THEN /\ pc' = "report"
                /\ last' = [op |-> "cleanup"]
           ELSE /\ pc' = "exit"
                /\ last' = [op |-> "exit", code |-> 1, reported |-> FALSE]
    /\ UNCHANGED <<files, idx, current_file, current_source, in_test_code,
                   in_extern_fn, vulnerabilities, stack, arg>>

\* print_report: the list is sorted in place unless --json was given or the
\* list is empty.
PrintReport ==
    /\ pc = "report"
    /\ LET sorts == ~arg.json /\ Len(vulnerabilities) > 0 IN
       /\ vulnerabilities' = IF sorts THEN sort_by_severity(vulnerabilities)
                             ELSE vulnerabilities
       /\ last' = [op |-> "print_report", sorted |-> sorts, input |-> vulnerabilities]
    /\ pc' = "gate"
    /\ UNCHANGED <<files, idx, current_file, current_source, in_test_code,
                   in_extern_fn, stack, arg>>

\* `vulnerabilities.iter().any(|v| matches!(v.severity, Severity::Critical))`
has_critical(vulns) == \E i \in 1..Len(vulns) : vulns[i].severity = "Critical"

\* Mutant: any finding fails the run.
exit_code_any_finding(vulns, fail_on_findings) ==
    IF Len(vulns) > 0 /\ fail_on_findings THEN 1 ELSE 0

\* The exit code main ends with after the report.
exit_code(vulns, fail_on_findings) ==
    IF has_critical(vulns) /\ fail_on_findings THEN 1 ELSE 0

\* The end of main: std::process::exit(1) or Ok(()).
ExitGate ==
    /\ pc = "gate"
    /\ pc' = "exit"
    /\ last' = [op |-> "exit", code |-> exit_code(vulnerabilities, arg.fail_on_findings),
                reported |-> TRUE]
    /\ UNCHANGED <<files, idx, current_file, current_source, in_test_code,
                   in_extern_fn, vulnerabilities, stack, arg>>

MainNext ==
    \/ Cleanup
    \/ PrintReport
    \/ ExitGate

MainSpec == MainInit /\ [][MainNext]_vars

\* The severities from most to least severe, as the claim orders them.
MostSevereFirst == <<"Critical", "High", "Medium", "Low">>

Position(sev) == CHOOSE i \in 1..4 : MostSevereFirst[i] = sev

Occurrences(seq, v) == Cardinality({i \in 1..Len(seq) : seq[i] = v})

PlaceOf(seq, v) == CHOOSE i \in 1..Len(seq) : seq[i] = v

\* C13: Severity is ordered Critical, High, Medium, Low; after the sort step
\* of print_report every finding of a more severe severity precedes every
\* finding of a less severe one, the list is a permutation of the list before
\* the sort, and findings of equal severity keep their scan order.
C13_SortBySeverity ==
    /\ \A a \in 1..4, b \in 1..4 :
           LET cmp == severity_cmp([severity |-> MostSevereFirst[a]],
                                   [severity |-> MostSevereFirst[b]])
           IN  /\ a < b <=> cmp = "Less"
               /\ a = b <=> cmp = "Equal"
               /\ a > b <=> cmp = "Greater"
    /\ (last.op = "print_report" /\ last.sorted) =>
           /\ Len(vulnerabilities) = Len(last.input)
           /\ \A i \in 1..Len(vulnerabilities), j \in 1..Len(vulnerabilities) :
                  Position(vulnerabilities[i].severity) < Position(vulnerabilities[j].severity)
                      => i < j
           /\ \A i \in 1..Len(last.input) :
                  Occurrences(vulnerabilities, last.input[i])
                      = Occurrences(last.input, last.input[i])
           /\ \A i \in 1..Len(last.input), j \in 1..Len(last.input) :
                  (i < j /\ last.input[i].severity = last.input[j].severity)
                      => PlaceOf(vulnerabilities, last.input[i])
                             < PlaceOf(vulnerabilities, last.input[j])

\* A list with a Critical finding between two Low findings was sorted.
C13_Witness ==
    /\ last.op = "print_report"
    /\ last.sorted
    /\ Len(last.input) >= 3
    /\ last.input[1].severity = "Low"
    /\ last.input[2].severity = "Critical"
    /\ last.input[3].severity = "Low"
    /\ vulnerabilities[1].severity = "Critical"

\* C15: when the scan and the report have completed, the exit code is 1 if
\* --fail-on-findings was given and some finding is Critical, and 0 (success)
\* otherwise.
C15_ExitCodeGating ==
    (pc = "exit" /\ last.reported) =>
        IF arg.fail_on_findings
           /\ \E i \in 1..Len(vulnerabilities) : vulnerabilities[i].severity = "Critical"
        THEN last.code = 1
        ELSE last.code = 0

\* A run with --fail-on-findings whose findings are all below Critical ended
\* with success.
C15_Witness ==
    /\ pc = "exit"
    /\ last.reported
    /\ arg.fail_on_findings
    /\ Len(vulnerabilities) > 0
    /\ \A i \in 1..Len(vulnerabilities) : vulnerabilities[i].severity # "Critical"
    /\ last.code = 0

\* A run with --fail-on-findings and a Critical finding ended with code 1.
C15_FailWitness ==
    /\ pc = "exit"
    /\ last.reported
    /\ arg.fail_on_findings
    /\ last.code = 1

\* ---------------------------------------------------------------------------
\* The scan run twice over the same files.
\* ---------------------------------------------------------------------------

\* Mutant: the second run goes on with the Scanner of the first.
Rerun_keeps_scanner ==
    /\ pc = "done"
    /\ arg.kind = "none"
    /\ arg' = [kind |-> "first_run", result |-> vulnerabilities]
    /\ idx' = 1
    /\ pc' = "walk"
    /\ stack' = <<>>
    /\ last' = [op |-> "new"]
    /\ UNCHANGED <<files, current_file, current_source, in_test_code, in_extern_fn,
                   vulnerabilities>>

\* scan_directory is called again on the same path: the result of the first
\* call is with the caller, and the walk starts over with a new Scanner.
Rerun ==
    /\ pc = "done"
    /\ arg.kind = "none"
    /\ arg' = [kind |-> "first_run", result |-> vulnerabilities]
    /\ idx' = 1
    /\ pc' = "walk"
    /\ current_file' = ""
    /\ current_source' = ""
    /\ in_test_code' = FALSE
    /\ in_extern_fn' = FALSE
    /\ vulnerabilities' = <<>>
    /\ stack' = <<>>
    /\ last' = [op |-> "new"]
    /\ UNCHANGED files

TwoRunsNext ==
    \/ Next
    \/ Rerun

TwoRunsSpec == Init /\ [][TwoRunsNext]_vars

AmplificationAdded ==
    SelectSeq(Added, LAMBDA v : v.panic_class = "PanicAmplification")

\* The rendered text names a lock and a lock acquisition.
LockTextCondition(text) ==
    /\ ContainsIgnoreCase(text, "mutex") \/ ContainsIgnoreCase(text, "rwlock")
    /\ \/ ContainsIgnoreCase(text, "lock(")
       \/ ContainsIgnoreCase(text, "read(")
       \/ ContainsIgnoreCase(text, "write(")

\* The text is one the false-positive filter suppresses.
FilterTextCondition(text) ==
    \/ ContainsIgnoreCase(text, "arc::try_unwrap")
    \/ ContainsIgnoreCase(text, "rc::try_unwrap")
    \/ /\ ContainsIgnoreCase(text, "self.inner") \/ ContainsIgnoreCase(text, ".inner()")
       /\ ~ContainsIgnoreCase(text, "file")
       /\ ~ContainsIgnoreCase(text, "read")
       /\ ~ContainsIgnoreCase(text, "load")

\* C16: an unwrap or expect call visited outside test context appends exactly
\* one Critical/PanicAmplification finding labelled "Mutex/RwLock unwrap
\* (panic amplification)" if its rendered text, lower-cased, contains mutex
\* or rwlock and contains lock(, read( or write(, and no such finding
\* otherwise, whether or not the false-positive filter matches the text.
C16_AmplificationRule ==
    (/\ last.op = "visit_expr_method_call"
     /\ last.node.method \in {"unwrap", "expect"}
     /\ OutsideTestContext(last)) =>
        IF LockTextCondition(Render(last.node))
        THEN /\ Len(AmplificationAdded) = 1
             /\ Summary(AmplificationAdded[1]) =
                    <<"Critical", "PanicAmplification",
                      "Mutex/RwLock unwrap (panic amplification)">>
        ELSE Len(AmplificationAdded) = 0

\* An expect call whose text the filter suppresses appended the amplification
\* finding and nothing else.
C16_Witness ==
    /\ last.op = "visit_expr_method_call"
    /\ last.node.method = "expect"
    /\ OutsideTestContext(last)
    /\ FilterTextCondition(Render(last.node))
    /\ Len(Added) = 1
    /\ Added[1].panic_class = "PanicAmplification"

\* ---------------------------------------------------------------------------
\* Severity against rule priority.
\* ---------------------------------------------------------------------------

\* The severities of all the rules, 1 to 9, whose condition a text with the
\* given features satisfies; rule 9 has no condition.
SatisfiedSeverities(tags) ==
    (IF {"file_read", "config"} \subseteq tags THEN {"Critical"} ELSE {})
    \cup (IF {"file_io", "unwrap_expect"} \subseteq tags THEN {"Critical"} ELSE {})
    \cup (IF {"socket", "unwrap_expect"} \subseteq tags THEN {"Critical"} ELSE {})
    \cup (IF {"http_lib", "send"} \subseteq tags THEN {"Critical"} ELSE {})
    \cup (IF "alloc" \in tags THEN {"High"} ELSE {})
    \cup (IF "parse" \in tags THEN {"High"} ELSE {})
    \cup (IF {"db_call", "db_lib"} \subseteq tags THEN {"High"} ELSE {})
    \cup (IF "env" \in tags THEN {"Medium"} ELSE {})
    \cup {"Low"}

MostSevere(sevs) == CHOOSE s \in sevs : \A t \in sevs : Position(s) <= Position(t)

\* C17: the severity classify_panic returns is the most severe of the
\* severities of all rules the text satisfies: a text satisfying a Critical
\* rule is not classified High, Medium or Low, and a text satisfying a High
\* rule is not classified Medium or Low.
C17_SeverityMonotone ==
    last.op = "classify_panic" =>
        /\ last.ret[1] = MostSevere(SatisfiedSeverities(arg.tags))
        /\ "Critical" \in SatisfiedSeverities(arg.tags) => last.ret[1] = "Critical"
        /\ "High" \in SatisfiedSeverities(arg.tags) => last.ret[1] \in {"Critical", "High"}

\* A text that satisfies a Critical rule and the Medium rule was classified
\* Critical.
C17_Witness ==
    /\ last.op = "classify_panic"
    /\ {"file_io", "unwrap_expect", "env"} \subseteq arg.tags
    /\ "config" \notin arg.tags
    /\ last.ret[1] = "Critical"

\* ---------------------------------------------------------------------------
\* Descent after the checks.
\* ---------------------------------------------------------------------------

\* The syntactic children of a node, in source order: the receiver and the
\* arguments of a method call, the function and the arguments of a call, the
\* indexed expression and the index, the base of a field access, the body of
\* a function. The tokens of a macro invocation are not syntax nodes.
SubNodes(node) ==
    IF node.kind = "method_call" THEN <<node.receiver>> \o node.args
    ELSE IF node.kind = "call" THEN <<node.func>> \o node.args
    ELSE IF node.kind = "index" THEN <<node.expr, node.index>>
    ELSE IF node.kind = "field" THEN <<node.base>>
    ELSE IF node.kind = "item_fn" THEN node.body
    ELSE <<>>

RECURSIVE PreOrder(_)
\* The nodes of a forest, each parent before its children, left to right.
PreOrder(nodes) ==
    IF Len(nodes) = 0 THEN <<>>
    ELSE <<Head(nodes)>> \o PreOrder(SubNodes(Head(nodes)) \o Tail(nodes))

\* The findings list after the check of one node of an audited file.
CheckedOnce(found, f, node) ==
    IF node.kind = "method_call"
    THEN method_call_findings(found, FALSE, f.path, f.source, node)
    ELSE IF node.kind = "index"
    THEN index_findings(found, FALSE, f.path, f.source, node)
    ELSE IF node.kind = "macro"
    THEN visit_macro_findings(found, FALSE, f.path, f.source, node)
    ELSE found

RECURSIVE CheckedInOrder(_, _, _)
CheckedInOrder(found, f, nodes) ==
    IF Len(nodes) = 0 THEN found
    ELSE CheckedInOrder(CheckedOnce(found, f, Head(nodes)), f, Tail(nodes))

\* A file that is traversed and has no test function and no tests directory.
NonTestFile(f) ==
    /\ f.readable /\ f.parses
    /\ ~HasTestsDir(f.path)
    /\ ~Contains(f.path, "/tests/")
    /\ \A i \in 1..Len(PreOrder(f.items)) :
           PreOrder(f.items)[i].kind = "item_fn" => ~HasTestAttr(PreOrder(f.items)[i])

\* C18: after the check of a method-call, indexing or macro node the
\* traversal goes on with the children of the node, whatever the check did;
\* in a file without test context the findings are those of checking every
\* node exactly once, each parent before its children.
C18_DescentContinues ==
    /\ [][AtCheckedNode =>
             /\ pc' = "visit"
             /\ stack' = Visits(SubNodes(Head(stack).node)) \o Tail(stack)]_vars
    /\ []((pc = "walk" /\ idx = 2 /\ NonTestFile(files[1])) =>
             vulnerabilities = CheckedInOrder(<<>>, files[1], PreOrder(files[1].items)))

\* The innermost unwrap of the chain c.unwrap().b[k].unwrap() appended its
\* finding after the finding of the indexing, which came after the finding
\* of the outer unwrap.
C18_Witness ==
    /\ last.op = "visit_expr_method_call"
    /\ last.node = Chain.receiver.expr.base
    /\ last.enclosing # <<>>
    /\ last.before >= 2
    /\ Len(vulnerabilities) = last.before + 1
    /\ vulnerabilities[last.before + 1].code = Render(Chain.receiver.expr.base)
    /\ vulnerabilities[last.before].code = Render(Chain.receiver)
    /\ vulnerabilities[last.before - 1].code = Render(Chain)

\* The receiver of a call whose own check the filter suppressed was checked
\* and appended its finding.
C18_SuppressedWitness ==
    /\ last.op = "visit_expr_method_call"
    /\ last.node = SuppressedOverUnwrap.receiver
    /\ Len(Added) = 1
    /\ \A i \in 1..Len(vulnerabilities) :
           vulnerabilities[i].code # take(Render(SuppressedOverUnwrap), 120)

====
